---- MODULE Spec2Model ----
(***************************************************************************)
(* Model of google_dork_builder (src/main.rs): the DorkApp session state,  *)
(* the query builder (generate_query), the history parser                  *)
(* (apply_query_string), the history file (save_history / load_history)    *)
(* and one action per user event handled by DorkApp::update.               *)
(*                                                                         *)
(* A Rust String is a sequence of one-character strings, so that trim,     *)
(* split_whitespace, strip_prefix, format! and join are computed character *)
(* by character as the code computes them.                                 *)
(***************************************************************************)
EXTENDS Integers, Sequences, FiniteSets, TLC

VARIABLES
    data,               \* DorkApp.data : DorkData
    query,              \* DorkApp.query
    history,            \* DorkApp.history
    selected_template,  \* DorkApp.selected_template
    selected_history,   \* DorkApp.selected_history
    selected_category,  \* DorkApp.selected_category
    disk,               \* content of HISTORY_FILE
    running,            \* FALSE once the process has panicked
                        \* (DorkApp.available_operators is never read or
                        \* written after default() and is left out)
    steps,              \* user events handled so far
    last,               \* the user event handled last
    saved,              \* what its save_history call returned, if any
    input,              \* argument of the function under test (FnSpec,
                        \* CatSpec, ParseSpec)
    output              \* its result (CatSpec)

vars == <<data, query, history, selected_template, selected_history,
          selected_category, disk, running, steps, last, saved, input, output>>

-----------------------------------------------------------------------------
(* Bounds *)

\* A session handles at most MaxSteps user events.
MaxSteps == 3

-----------------------------------------------------------------------------
(* Characters and string literals *)

\* Printable ASCII, bytes 32..95.
Ascii32 ==
    <<" ", "!", "\"", "#", "$", "%", "&", "'", "(", ")", "*", "+", ",", "-",
      ".", "/", "0", "1", "2", "3", "4", "5", "6", "7", "8", "9", ":", ";",
      "<", "=", ">", "?", "@", "A", "B", "C", "D", "E", "F", "G", "H", "I",
      "J", "K", "L", "M", "N", "O", "P", "Q", "R", "S", "T", "U", "V", "W",
      "X", "Y", "Z", "[", "\\", "]", "^", "_">>

\* Printable ASCII, bytes 97..126.
Ascii97 ==
    <<"a", "b", "c", "d", "e", "f", "g", "h", "i", "j", "k", "l", "m", "n",
      "o", "p", "q", "r", "s", "t", "u", "v", "w", "x", "y", "z", "{", "|",
      "}", "~">>

\* The byte of a character of the model; tab is 9.
Code(c) ==
    IF c = "\t" THEN 9
    ELSE IF \E i \in 1..Len(Ascii32) : Ascii32[i] = c
         THEN 31 + (CHOOSE i \in 1..Len(Ascii32) : Ascii32[i] = c)
         ELSE 96 + (CHOOSE i \in 1..Len(Ascii97) : Ascii97[i] = c)

\* The character of a byte in 32..95 or 97..126.
Chr(n) == IF n <= 95 THEN Ascii32[n - 31] ELSE Ascii97[n - 96]

\* char::is_whitespace, on the characters of the model
IsWhitespace(c) == c \in {" ", "\t"}

Quote == "\""
Space == <<" ">>

PrefixSite == <<"s", "i", "t", "e", ":">>
PrefixInurl == <<"i", "n", "u", "r", "l", ":">>
PrefixIntitle == <<"i", "n", "t", "i", "t", "l", "e", ":">>
PrefixFiletype == <<"f", "i", "l", "e", "t", "y", "p", "e", ":">>
PrefixIntext == <<"i", "n", "t", "e", "x", "t", ":">>

StrEnv == <<"e", "n", "v">>
StrPdf == <<"p", "d", "f">>
StrAdmin == <<"a", "d", "m", "i", "n">>
StrLogin == <<"l", "o", "g", "i", "n">>
StrExampleCom == <<"e", "x", "a", "m", "p", "l", "e", ".", "c", "o", "m">>
StrOR == <<"O", "R">>
StrA == <<"a">>
StrB == <<"b">>
StrTwoWords == <<"a", " ", "b">>
CatFiles == <<"F", "i", "l", "e", "s">>
CatAdmin == <<"A", "d", "m", "i", "n">>

-----------------------------------------------------------------------------
(* String functions of the standard library, as the code uses them *)

RECURSIVE TrimStart(_)
TrimStart(s) ==
    IF s = <<>> THEN <<>>
    ELSE IF IsWhitespace(Head(s)) THEN TrimStart(Tail(s)) ELSE s

RECURSIVE TrimEnd(_)
TrimEnd(s) ==
    IF s = <<>> THEN <<>>
    ELSE IF IsWhitespace(s[Len(s)]) THEN TrimEnd(SubSeq(s, 1, Len(s) - 1))
    ELSE s

\* str::trim
Trim(s) == TrimEnd(TrimStart(s))

\* The first whitespace-free run of s (s does not start with whitespace).
RECURSIVE TakeToken(_)
TakeToken(s) ==
    IF s = <<>> \/ IsWhitespace(Head(s)) THEN <<>>
    ELSE <<Head(s)>> \o TakeToken(Tail(s))

\* str::split_whitespace, collected
RECURSIVE SplitWhitespace(_)
SplitWhitespace(s) ==
    LET t == TrimStart(s)
        tok == TakeToken(t)
    IN  IF t = <<>> THEN <<>>
        ELSE <<tok>> \o SplitWhitespace(SubSeq(t, Len(tok) + 1, Len(t)))

StartsWith(s, p) == Len(s) >= Len(p) /\ SubSeq(s, 1, Len(p)) = p

\* str::strip_prefix, when StartsWith(s, p)
StripPrefix(s, p) == SubSeq(s, Len(p) + 1, Len(s))

\* [String]::join
RECURSIVE Join(_, _)
Join(parts, glue) ==
    IF parts = <<>> THEN <<>>
    ELSE IF Len(parts) = 1 THEN parts[1]
    ELSE parts[1] \o glue \o Join(Tail(parts), glue)

\* Vec::contains
Contains(h, q) == \E i \in 1..Len(h) : h[i] = q

-----------------------------------------------------------------------------
(* Template catalog *)

\* crate::templates::TEMPLATES.  The first entry is the one the
\* specification names; the others give two categories whose entries
\* interleave in catalog order.
TEMPLATES ==
    << [name |-> "Exposed Config", category |-> CatFiles, site |-> <<>>,
        inurl |-> <<>>, intitle |-> <<>>, filetype |-> StrEnv,
        intext |-> <<>>],
       [name |-> "Admin Login", category |-> CatAdmin, site |-> <<>>,
        inurl |-> StrAdmin, intitle |-> StrLogin, filetype |-> <<>>,
        intext |-> <<>>],
       [name |-> "PDF Documents", category |-> CatFiles,
        site |-> StrExampleCom, inurl |-> <<>>, intitle |-> <<>>,
        filetype |-> StrPdf, intext |-> <<>>],
       [name |-> "Admin Panel", category |-> CatAdmin, site |-> <<>>,
        inurl |-> <<>>, intitle |-> StrAdmin, filetype |-> <<>>,
        intext |-> <<>>] >>

\* u8::to_ascii_lowercase
ToAsciiLowercase(c) ==
    IF c # "\t" /\ Code(c) \in 65..90 THEN Chr(Code(c) + 32) ELSE c

\* str::eq_ignore_ascii_case
EqIgnoreAsciiCase(a, b) ==
    /\ Len(a) = Len(b)
    /\ \A i \in 1..Len(a) : ToAsciiLowercase(a[i]) = ToAsciiLowercase(b[i])

\* matches_category that compares case-sensitively
matches_category_exact(tpl, category) == tpl.category = category

\* DorkTemplate::matches_category
matches_category(tpl, category) == EqIgnoreAsciiCase(tpl.category, category)

\* filter_dorks_by_category
filter_dorks_by_category(dorks, category) ==
    SelectSeq(dorks, LAMBDA d : matches_category(d, category))

\* Ord for str: byte-wise lexicographic order
RECURSIVE StrLess(_, _)
StrLess(a, b) ==
    IF b = <<>> THEN FALSE
    ELSE IF a = <<>> THEN TRUE
    ELSE IF Code(Head(a)) # Code(Head(b)) THEN Code(Head(a)) < Code(Head(b))
    ELSE StrLess(Tail(a), Tail(b))

\* Insert x into the ascending sequence s.
RECURSIVE InsertSorted(_, _)
InsertSorted(s, x) ==
    IF s = <<>> THEN <<x>>
    ELSE IF StrLess(x, Head(s)) THEN <<x>> \o s
    ELSE <<Head(s)>> \o InsertSorted(Tail(s), x)

\* sort_unstable left out: the sequence as it came
SortNone(s) == s

\* slice::sort_unstable on strings
RECURSIVE SortUnstable(_)
SortUnstable(s) ==
    IF s = <<>> THEN <<>> ELSE InsertSorted(SortUnstable(Tail(s)), Head(s))

\* Vec::dedup: drops every element equal to the one before it
RECURSIVE Dedup(_)
Dedup(s) ==
    IF Len(s) <= 1 THEN s
    ELSE IF s[1] = s[2] THEN Dedup(Tail(s))
    ELSE <<s[1]>> \o Dedup(Tail(s))

\* unique_categories
unique_categories(dorks) ==
    Dedup(SortUnstable([i \in 1..Len(dorks) |-> dorks[i].category]))

-----------------------------------------------------------------------------
(* Field set and query builder *)

\* DorkData::default
DefaultData ==
    [site |-> <<>>, inurl |-> <<>>, intitle |-> <<>>, filetype |-> <<>>,
     intext |-> <<>>, operator |-> <<>>]

\* Glue that does not trim the operator
GlueUntrimmed(d) ==
    IF d.operator = <<>> THEN Space ELSE Space \o d.operator \o Space

\* generate_query: the separator
Glue(d) ==
    LET op == Trim(d.operator)
    IN  IF op = <<>> THEN Space ELSE Space \o op \o Space

\* generate_query: the five conditional pushes, in the order of the code
Parts(d) ==
    (IF d.site # <<>> THEN <<PrefixSite \o d.site>> ELSE <<>>)
    \o (IF d.inurl # <<>>
        THEN <<PrefixInurl \o <<Quote>> \o d.inurl \o <<Quote>> >> ELSE <<>>)
    \o (IF d.intitle # <<>>
        THEN <<PrefixIntitle \o <<Quote>> \o d.intitle \o <<Quote>> >>
        ELSE <<>>)
    \o (IF d.filetype # <<>> THEN <<PrefixFiletype \o d.filetype>> ELSE <<>>)
    \o (IF d.intext # <<>>
        THEN <<PrefixIntext \o <<Quote>> \o d.intext \o <<Quote>> >>
        ELSE <<>>)

\* generate_query: the value assigned to self.query
BuildQuery(d) == Join(Parts(d), Glue(d))

\* ShouldPush without the test for an empty query
ShouldPushNoEmptyTest(q, h) == ~Contains(h, q)

\* ShouldPush with the membership test inverted
ShouldPushIfPresent(q, h) == q # <<>> /\ Contains(h, q)

\* generate_query: the condition of the push
ShouldPush(q, h) == q # <<>> /\ ~Contains(h, q)

\* Push that inserts at the front
PushFront(h, q) == <<q>> \o h

\* generate_query: self.history.push(self.query.clone())
Push(h, q) == Append(h, q)

\* apply_template
apply_template(d, index) ==
    LET tpl == TEMPLATES[index + 1]
    IN  [d EXCEPT !.inurl = tpl.inurl, !.intitle = tpl.intitle,
                  !.filetype = tpl.filetype, !.site = tpl.site,
                  !.intext = tpl.intext]

\* apply_query_string: the body of the loop, for one token
ApplyToken(d, token) ==
    IF StartsWith(token, PrefixInurl)
    THEN [d EXCEPT !.inurl = StripPrefix(token, PrefixInurl)]
    ELSE IF StartsWith(token, PrefixIntitle)
    THEN [d EXCEPT !.intitle = StripPrefix(token, PrefixIntitle)]
    ELSE IF StartsWith(token, PrefixFiletype)
    THEN [d EXCEPT !.filetype = StripPrefix(token, PrefixFiletype)]
    ELSE IF StartsWith(token, PrefixSite)
    THEN [d EXCEPT !.site = StripPrefix(token, PrefixSite)]
    ELSE [d EXCEPT !.intext =
              IF d.intext # <<>> THEN d.intext \o Space \o token ELSE token]

RECURSIVE ApplyTokens(_, _)
ApplyTokens(d, tokens) ==
    IF tokens = <<>> THEN d
    ELSE ApplyTokens(ApplyToken(d, Head(tokens)), Tail(tokens))

\* apply_query_string that clears intext with the other four fields
apply_query_string_clearing_intext(d, q) ==
    ApplyTokens([d EXCEPT !.inurl = <<>>, !.intitle = <<>>,
                          !.filetype = <<>>, !.site = <<>>, !.intext = <<>>],
                SplitWhitespace(q))

\* apply_query_string
apply_query_string(d, q) ==
    ApplyTokens([d EXCEPT !.inurl = <<>>, !.intitle = <<>>,
                          !.filetype = <<>>, !.site = <<>>],
                SplitWhitespace(q))

-----------------------------------------------------------------------------
(* History file *)

\* FileMissing stands for every file fs::read_to_string fails on (absent,
\* unreadable), FileGarbage for text serde_json does not parse as an array
\* of strings.
FileMissing == [kind |-> "missing", items |-> <<>>]
FileGarbage == [kind |-> "garbage", items |-> <<>>]

\* serde_json::to_string_pretty(&self.history): a JSON array of strings
ToJson(h) == [kind |-> "json", items |-> h]

\* What fs::write can do: write the content; fail before the file is
\* opened; fail after it was truncated.
WriteOutcomes == {"ok", "err_untouched", "err_truncated"}

\* save_history that writes only the newest entry
save_history_last_only(h, old, outcome) ==
    IF outcome = "ok" THEN ToJson(SubSeq(h, Len(h), Len(h)))
    ELSE IF outcome = "err_untouched" THEN old
    ELSE FileGarbage

\* save_history that writes again until the write succeeds
save_history_retrying(h, old, outcome) == ToJson(h)

\* save_history: the file after the call
save_history(h, old, outcome) ==
    IF outcome = "ok" THEN ToJson(h)
    ELSE IF outcome = "err_untouched" THEN old
    ELSE FileGarbage

\* load_history that takes the stored entries newest first
load_history_reversed(h, file) ==
    IF file.kind = "json"
    THEN [i \in 1..Len(file.items) |-> file.items[Len(file.items) + 1 - i]]
    ELSE h

\* load_history: the history after the call
load_history(h, file) == IF file.kind = "json" THEN file.items ELSE h

-----------------------------------------------------------------------------
(* Inputs of the session *)

Fields == {"site", "inurl", "intitle", "filetype", "intext"}

\* Texts the user types into a field, into the operator box and into the
\* generated-query box.
EditValues == {<<>>, StrA}
OperatorValues == {<<>>, StrOR}
QueryEdits == {StrA}

\* What HISTORY_FILE can hold at startup: nothing, text that is not a JSON
\* array of strings, or an array, here of at most two of two strings.
StartupFiles ==
    {FileMissing, FileGarbage, ToJson(<<>>),
     ToJson(<<PrefixFiletype \o StrEnv>>),
     ToJson(<<PrefixSite \o StrA, PrefixSite \o StrA>>),
     ToJson(<<PrefixSite \o StrA, PrefixFiletype \o StrEnv>>)}

-----------------------------------------------------------------------------
(* Session: main and DorkApp::update, one action per user event *)

\* main: DorkApp::default() followed by load_history()
Init ==
    /\ disk \in StartupFiles
    /\ data = DefaultData
    /\ query = <<>>
    /\ history = load_history(<<>>, disk)
    /\ selected_template = 0
    /\ selected_history = 0
    /\ selected_category = <<>>
    /\ running = TRUE
    /\ steps = 0
    /\ last = "main"
    /\ saved = "none"
    /\ input = <<>>
    /\ output = <<>>

\* One more user event, named op, is handled while the process runs.
Event(op) == running /\ steps < MaxSteps /\ steps' = steps + 1 /\ last' = op

\* generate_query on the field set d, with write outcome w
generate_query(d, w) ==
    LET q == BuildQuery(d)
    IN  /\ query' = q
        /\ IF ShouldPush(q, history)
           THEN /\ history' = Push(history, q)
                /\ disk' = save_history(Push(history, q), disk, w)
                /\ saved' = IF w = "ok" THEN "Ok" ELSE "Err"
           ELSE /\ UNCHANGED <<history, disk>>
                /\ saved' = "none"

\* The bounds test of a catalog indexed three entries further on
IndexInBoundsShifted(index) == index + 3 < Len(TEMPLATES)

\* apply_template, line 113: the bounds test of TEMPLATES[index]
IndexInBounds(index) == index < Len(TEMPLATES)

\* update, lines 199-202: apply_template(index), which panics on an index
\* out of bounds, then generate_query
ApplyAndGenerate(index, w) ==
    IF IndexInBounds(index)
    THEN /\ data' = apply_template(data, index)
         /\ generate_query(data', w)
         /\ UNCHANGED running
    ELSE /\ running' = FALSE
         /\ saved' = "none"
         /\ UNCHANGED <<data, query, history, disk>>

\* update, lines 167-202, when the user picks category c in the combo box:
\* a changed category resets selected_template, and a changed
\* selected_template applies the template and generates.
SelectCategory(c, w) ==
    /\ Event("SelectCategory")
    /\ Contains(unique_categories(TEMPLATES), c)
    /\ selected_category' = c
    /\ selected_template' = IF c # selected_category THEN 0 ELSE selected_template
    /\ IF selected_template' # selected_template
       THEN ApplyAndGenerate(selected_template', w)
       ELSE /\ UNCHANGED <<data, query, history, disk, running>>
            /\ saved' = "none"
    /\ UNCHANGED <<selected_history, input, output>>

\* update, lines 181-202, when the user picks entry i of the template combo
\* box, which lists filtered_templates.
SelectTemplate(i, w) ==
    /\ Event("SelectTemplate")
    /\ i \in 0..(Len(filter_dorks_by_category(TEMPLATES, selected_category)) - 1)
    /\ selected_template' = i
    /\ IF selected_template' # selected_template
       THEN ApplyAndGenerate(selected_template', w)
       ELSE /\ UNCHANGED <<data, query, history, disk, running>>
            /\ saved' = "none"
    /\ UNCHANGED <<selected_history, selected_category, input, output>>

\* EditField that rebuilds the query on every edit
EditFieldRebuilding(f, v) ==
    /\ Event("EditField")
    /\ saved' = "none"
    /\ f \in Fields
    /\ data' = [data EXCEPT ![f] = v]
    /\ query' = BuildQuery(data')
    /\ UNCHANGED <<history, selected_template, selected_history,
                   selected_category, disk, running, input, output>>

\* update, lines 209-222: the user edits one of the five field boxes.
EditField(f, v) ==
    /\ Event("EditField")
    /\ saved' = "none"
    /\ f \in Fields
    /\ data' = [data EXCEPT ![f] = v]
    /\ UNCHANGED <<query, history, selected_template, selected_history,
                   selected_category, disk, running, input, output>>

\* update, lines 206-207: the user edits the operator box.
SetOperator(v) ==
    /\ Event("SetOperator")
    /\ saved' = "none"
    /\ data' = [data EXCEPT !.operator = v]
    /\ UNCHANGED <<query, history, selected_template, selected_history,
                   selected_category, disk, running, input, output>>

\* update, lines 224-226: the generate button.
Generate(w) ==
    /\ Event("Generate")
    /\ generate_query(data, w)
    /\ UNCHANGED <<data, selected_template, selected_history,
                   selected_category, running, input, output>>

\* update, lines 231-245: the user picks entry i of the history combo box.
SelectHistory(i, w) ==
    /\ Event("SelectHistory")
    /\ i \in 0..(Len(history) - 1)
    /\ selected_history' = i
    /\ IF selected_history' # selected_history
       THEN /\ data' = apply_query_string(data, history[i + 1])
            /\ generate_query(data', w)
       ELSE /\ UNCHANGED <<data, query, history, disk>>
            /\ saved' = "none"
    /\ UNCHANGED <<selected_template, selected_category, running, input, output>>

\* update, lines 247-248: the user edits the generated-query box.
EditQuery(v) ==
    /\ Event("EditQuery")
    /\ saved' = "none"
    /\ query' = v
    /\ UNCHANGED <<data, history, selected_template, selected_history,
                   selected_category, disk, running, input, output>>

\* What the clipboard can do: take the text; fail in set_contents; fail in
\* ClipboardContext::new.
ClipboardOutcomes == {"ok", "set_contents_err", "new_err"}

\* update, lines 251-254: the copy button.  The result of
\* ClipboardContext::new() is unwrapped, that of set_contents is dropped.
Copy(outcome) ==
    /\ Event("Copy")
    /\ saved' = "none"
    /\ running' = (outcome # "new_err")
    /\ UNCHANGED <<data, query, history, selected_template, selected_history,
                   selected_category, disk, input, output>>

\* update, lines 256-259: the browser button; the result of open::that is
\* dropped.
OpenBrowser ==
    /\ Event("OpenBrowser")
    /\ saved' = "none"
    /\ UNCHANGED <<data, query, history, selected_template, selected_history,
                   selected_category, disk, running, input, output>>

Next ==
    \/ \E k \in 1..Len(unique_categories(TEMPLATES)), w \in WriteOutcomes :
           SelectCategory(unique_categories(TEMPLATES)[k], w)
    \/ \E i \in 0..(Len(TEMPLATES) - 1), w \in WriteOutcomes : SelectTemplate(i, w)
    \/ \E f \in Fields, v \in EditValues : EditField(f, v)
    \/ \E v \in OperatorValues : SetOperator(v)
    \/ \E w \in WriteOutcomes : Generate(w)
    \/ \E i \in 0..(2 + MaxSteps), w \in WriteOutcomes : SelectHistory(i, w)
    \/ \E v \in QueryEdits : EditQuery(v)
    \/ \E outcome \in ClipboardOutcomes : Copy(outcome)
    \/ OpenBrowser

Spec == Init /\ [][Next]_vars

-----------------------------------------------------------------------------
(* The query builder and the parser as functions: build, then parse *)

\* Field sets handed to generate_query.
BuildInputs ==
    [site : {<<>>, StrA, StrExampleCom},
     inurl : {<<>>, StrAdmin, StrTwoWords},
     intitle : {<<>>, StrLogin},
     filetype : {<<>>, StrPdf},
     intext : {<<>>, StrB, StrTwoWords},
     operator : {<<>>, StrOR, <<" ">>, <<" ", "O", "R", "\t">>}]

FnInit ==
    /\ input \in BuildInputs
    /\ data = DefaultData
    /\ query = <<>>
    /\ history = <<>>
    /\ selected_template = 0
    /\ selected_history = 0
    /\ selected_category = <<>>
    /\ disk = FileMissing
    /\ running = TRUE
    /\ steps = 0
    /\ last = "main"
    /\ saved = "none"
    /\ output = <<>>

\* generate_query, lines 66-91, on the field set input
FnBuild ==
    /\ last = "main"
    /\ last' = "build"
    /\ query' = BuildQuery(input)
    /\ UNCHANGED <<data, history, selected_template, selected_history,
                   selected_category, disk, running, steps, saved, input, output>>

\* apply_query_string on the built query, into a field set that holds the
\* operator of input and nothing else
FnParse ==
    /\ last = "build"
    /\ last' = "parse"
    /\ data' = apply_query_string([DefaultData EXCEPT !.operator = input.operator],
                                  query)
    /\ UNCHANGED <<query, history, selected_template, selected_history,
                   selected_category, disk, running, steps, saved, input, output>>

FnNext == FnBuild \/ FnParse

FnSpec == FnInit /\ [][FnNext]_vars

-----------------------------------------------------------------------------
(* The catalog functions: unique_categories and filter_dorks_by_category *)

\* A catalog holds at most MaxCatalog templates.
MaxCatalog == 3

StrAdminLower == <<"a", "d", "m", "i", "n">>
StrAdminUpper == <<"A", "D", "M", "I", "N">>

\* Category labels of the catalogs, and categories asked for.
CatalogLabels == {CatAdmin, StrAdminLower, CatFiles}
CategoryArgs == {CatAdmin, StrAdminLower, StrAdminUpper, CatFiles, <<>>}

\* The template at position i of a catalog, with category label c
TemplateOf(i, c) ==
    [name |-> <<"T1", "T2", "T3", "T4", "T5">>[i], category |-> c,
     site |-> <<>>, inurl |-> <<>>, intitle |-> <<>>, filetype |-> StrEnv,
     intext |-> <<>>]

Catalogs ==
    UNION {{[i \in 1..n |-> TemplateOf(i, labels[i])] :
                labels \in [1..n -> CatalogLabels]} : n \in 0..MaxCatalog}

CatInit ==
    /\ input \in [dorks : Catalogs, category : CategoryArgs]
    /\ output = <<>>
    /\ data = DefaultData
    /\ query = <<>>
    /\ history = <<>>
    /\ selected_template = 0
    /\ selected_history = 0
    /\ selected_category = <<>>
    /\ disk = FileMissing
    /\ running = TRUE
    /\ steps = 0
    /\ last = "main"
    /\ saved = "none"

\* unique_categories on the catalog of input
FnCategories ==
    /\ last = "main"
    /\ last' = "unique_categories"
    /\ output' = unique_categories(input.dorks)
    /\ UNCHANGED <<data, query, history, selected_template, selected_history,
                   selected_category, disk, running, steps, saved, input>>

\* filter_dorks_by_category on the catalog and the category of input
FnFilter ==
    /\ last = "main"
    /\ last' = "filter_dorks_by_category"
    /\ output' = filter_dorks_by_category(input.dorks, input.category)
    /\ UNCHANGED <<data, query, history, selected_template, selected_history,
                   selected_category, disk, running, steps, saved, input>>

CatNext == FnCategories \/ FnFilter

CatSpec == CatInit /\ [][CatNext]_vars

-----------------------------------------------------------------------------
(* The parser as a function: apply_query_string, once and once more *)

\* A query has at most MaxTokens tokens.
MaxTokens == 3

\* Tokens of the queries parsed.
ParseTokens ==
    {PrefixSite \o StrA, PrefixSite \o StrB,
     PrefixInurl \o <<"\"">> \o StrA \o <<"\"">>,
     PrefixIntitle \o StrA, PrefixFiletype \o StrPdf,
     PrefixIntext \o StrB, StrOR}

\* Field sets the parse starts from.
ParseStarts ==
    {DefaultData,
     [site |-> StrExampleCom, inurl |-> StrAdmin, intitle |-> StrLogin,
      filetype |-> StrEnv, intext |-> StrTwoWords, operator |-> StrOR]}

\* Whitespace between (and around) the tokens of a query.
ParseGaps == {<<" ">>, <<"\t", " ">>}

\* The tokens with gap before each of them and once more at the end, but
\* with a single space where gap is one.
RECURSIVE QueryOf(_, _)
QueryOf(tokens, gap) ==
    IF tokens = <<>> THEN (IF gap = <<" ">> THEN <<>> ELSE gap)
    ELSE IF gap = <<" ">> /\ Len(tokens) = 1 THEN tokens[1]
    ELSE IF gap = <<" ">> THEN tokens[1] \o gap \o QueryOf(Tail(tokens), gap)
    ELSE gap \o tokens[1] \o QueryOf(Tail(tokens), gap)

ParseInit ==
    /\ input \in [tokens : UNION {[1..n -> ParseTokens] : n \in 0..MaxTokens},
                  gap : ParseGaps, start : ParseStarts]
    /\ data = input.start
    /\ query = QueryOf(input.tokens, input.gap)
    /\ output = <<>>
    /\ history = <<>>
    /\ selected_template = 0
    /\ selected_history = 0
    /\ selected_category = <<>>
    /\ disk = FileMissing
    /\ running = TRUE
    /\ steps = 0
    /\ last = "main"
    /\ saved = "none"

\* apply_query_string on the query, into the field set as it stands
FnApplyQuery ==
    /\ last = "main"
    /\ last' = "apply_query_string"
    /\ data' = apply_query_string(data, query)
    /\ UNCHANGED <<query, history, selected_template, selected_history,
                   selected_category, disk, running, steps, saved, input,
                   output>>

\* apply_query_string on the same query a second time
FnApplyQueryAgain ==
    /\ last = "apply_query_string"
    /\ last' = "apply_query_string twice"
    /\ data' = apply_query_string(data, query)
    /\ UNCHANGED <<query, history, selected_template, selected_history,
                   selected_category, disk, running, steps, saved, input,
                   output>>

ParseNext == FnApplyQuery \/ FnApplyQueryAgain

ParseSpec == ParseInit /\ [][ParseNext]_vars

-----------------------------------------------------------------------------
(* Properties of the session *)

Occurrences(h, q) == Cardinality({i \in 1..Len(h) : h[i] = q})

IsPrefix(a, b) == Len(a) <= Len(b) /\ SubSeq(b, 1, Len(a)) = a

AllFieldsEmpty(d) ==
    /\ d.site = <<>> /\ d.inurl = <<>> /\ d.intitle = <<>>
    /\ d.filetype = <<>> /\ d.intext = <<>>

\* C1: in every reachable state the in-memory history holds no string at
\* two different positions.
C1_NoDuplicates ==
    \A i, j \in 1..Len(history) : history[i] = history[j] => i = j

\* C7: every step leaves the old history as a prefix of the new one and
\* adds at most one entry at the end.
C7_AppendOnly ==
    [][IsPrefix(history, history') /\ Len(history') <= Len(history) + 1]_vars

\* C7 witness: an entry was pushed behind the loaded ones.
C7_Witness ==
    /\ Len(history) > 2
    /\ history[Len(history)] = query

\* C8: a step that appends saves, and with a successful write leaves the
\* file holding the whole in-memory history in order; a step that does not
\* append leaves the file as it was.
C8_PersistOnAppend ==
    [][/\ history' # history
            => /\ saved' # "none"
               /\ saved' = "Ok" => disk' = [kind |-> "json", items |-> history']
       /\ history' = history => disk' = disk]_vars

\* C8 witness: the file holds a history that was appended to.
C8_Witness ==
    /\ Len(history) > 2
    /\ saved = "Ok"
    /\ disk = [kind |-> "json", items |-> history]

\* C10: generate with the five fields empty, whatever the operator, sets
\* the query to the empty string and changes neither history nor file.
C10_EmptyNotAppended ==
    [][(last' = "Generate" /\ AllFieldsEmpty(data))
          => query' = <<>> /\ history' = history /\ disk' = disk]_vars

\* C10 witness: generate ran on empty fields with an operator set.
C10_Witness ==
    /\ last = "Generate"
    /\ AllFieldsEmpty(data)
    /\ data.operator = StrOR
    /\ query = <<>>

\* C2: when a template selection fires, the five fields become those of
\* entry selected_template of the category-filtered view.
C2_TemplateOfFilteredView ==
    [][(last' = "SelectTemplate" /\ selected_template' # selected_template)
          => LET view == filter_dorks_by_category(TEMPLATES, selected_category)
                 tpl == view[selected_template' + 1]
             IN  /\ data'.site = tpl.site
                 /\ data'.inurl = tpl.inurl
                 /\ data'.intitle = tpl.intitle
                 /\ data'.filetype = tpl.filetype
                 /\ data'.intext = tpl.intext]_vars

\* C3: a history selection that fires leaves the history as it was.
C3_SelectHistoryNoOp ==
    [][(last' = "SelectHistory" /\ selected_history' # selected_history)
          => history' = history]_vars

\* C4: from the initial session state (empty loaded history, default
\* fields, nothing generated yet), selecting template 0 applies the first
\* template, sets the query to filetype:env and leaves the history holding
\* exactly that query.
C4_FirstTemplate ==
    [][(/\ data = DefaultData /\ query = <<>> /\ history = <<>>
        /\ selected_template = 0 /\ selected_history = 0
        /\ last \in {"main", "SelectCategory"}
        /\ last' = "SelectTemplate" /\ selected_template' = 0)
          => /\ data' = [DefaultData EXCEPT !.filetype = StrEnv]
             /\ query' = PrefixFiletype \o StrEnv
             /\ history' = <<PrefixFiletype \o StrEnv>>]_vars

\* C6: a generate that follows a generate leaves the history as the first
\* left it, and the generated query occurs in it exactly once.
C6_GenerateTwice ==
    [][(last = "Generate" /\ last' = "Generate")
          => /\ history' = history
             /\ query' # <<>> => Occurrences(history', query') = 1]_vars

\* C11: at startup the process runs, the history is empty when the file
\* is missing, unreadable or not an array of strings, and is the stored
\* sequence in stored order when it is one.
C11_LoadNeverFails ==
    steps = 0
        => /\ running
           /\ disk.kind # "json" => history = <<>>
           /\ disk.kind = "json"
                => /\ Len(history) = Len(disk.items)
                   /\ \A i \in 1..Len(history) : history[i] = disk.items[i]

\* C11 witness: a session started on a file that is not an array of strings.
C11_Witness == steps = 0 /\ disk.kind = "garbage" /\ history = <<>> /\ running

\* C14: a category selection sets selected_category, sets selected_template
\* to 0 when the category changed, and leaves fields, query, history and
\* file as they were.
C14_SelectCategoryFrame ==
    [][last' = "SelectCategory"
          => /\ selected_category' # selected_category => selected_template' = 0
             /\ data' = data
             /\ query' = query
             /\ history' = history
             /\ disk' = disk]_vars

\* C16: a step whose write fails completes with the process running and the
\* new query at the end of the in-memory history, enters no error state,
\* writes nothing more, and leaves every later event possible.
C16_PersistFailureSwallowed ==
    [][saved' = "Err"
          => /\ running'
             /\ history' = Append(history, query')
             /\ disk' \in {disk, FileGarbage}]_vars

\* C16 witness: a write failed and the history kept the unsaved entry.
C16_Witness ==
    /\ running
    /\ saved = "Err"
    /\ history # <<>>
    /\ history[Len(history)] = query
    /\ disk # [kind |-> "json", items |-> history]

\* C17: a field edit or an operator edit changes at most the edited
\* component of the field set, and nothing of query, history, file and
\* selections.
C17_EditFrame ==
    [][/\ last' \in {"EditField", "SetOperator"}
            => /\ query' = query
               /\ history' = history
               /\ disk' = disk
               /\ selected_template' = selected_template
               /\ selected_history' = selected_history
               /\ selected_category' = selected_category
       /\ last' = "EditField"
            => /\ data'.operator = data.operator
               /\ Cardinality({f \in Fields : data'[f] # data[f]}) <= 1
       /\ last' = "SetOperator"
            => \A f \in Fields : data'[f] = data[f]]_vars

\* C17 witness: a field was edited while a generated query was shown.
C17_Witness ==
    /\ last = "EditField"
    /\ query # <<>>
    /\ query # BuildQuery(data)

\* C18: the copy button, whatever the clipboard does, leaves the process
\* running and the session state as it was.
C18_CopyNeverFatal ==
    [][last' = "Copy"
          => /\ running'
             /\ data' = data
             /\ query' = query
             /\ history' = history
             /\ selected_template' = selected_template
             /\ selected_history' = selected_history
             /\ selected_category' = selected_category]_vars

\* C19: whenever apply_template is called (a changed selected_template in a
\* template or category selection) its index is below the length of the
\* catalog, and the lookup does not panic.
C19_TemplateIndexInBounds ==
    [][(/\ last' \in {"SelectTemplate", "SelectCategory"}
        /\ selected_template' # selected_template)
          => selected_template' < Len(TEMPLATES) /\ running']_vars

\* C19 witness: a template beyond the first was applied.
C19_Witness ==
    /\ last = "SelectTemplate"
    /\ selected_template > 0
    /\ running
    /\ query # <<>>

\* The step called generate_query.
GenerateQueryCalled ==
    \/ last' = "Generate"
    \/ last' \in {"SelectTemplate", "SelectCategory"}
         /\ selected_template' # selected_template
    \/ last' = "SelectHistory" /\ selected_history' # selected_history

\* C20: right after generate_query the query is empty or in the history,
\* and no step appends the empty string to the history.
C20_QueryInHistory ==
    [][/\ GenerateQueryCalled => (query' = <<>> \/ Contains(history', query'))
       /\ history' # history => history'[Len(history')] # <<>>]_vars

\* C20 witness: a history selection rebuilt a query and pushed it.
C20_Witness ==
    /\ last = "SelectHistory"
    /\ saved # "none"
    /\ query # <<>>
    /\ history[Len(history)] = query

-----------------------------------------------------------------------------
(* Properties of the query builder and the parser *)

FieldValues(fs) == <<fs.site, fs.inurl, fs.intitle, fs.filetype, fs.intext>>

\* The segment of each field, whether empty or not
Segments(fs) ==
    <<PrefixSite \o fs.site,
      PrefixInurl \o <<"\"">> \o fs.inurl \o <<"\"">>,
      PrefixIntitle \o <<"\"">> \o fs.intitle \o <<"\"">>,
      PrefixFiletype \o fs.filetype,
      PrefixIntext \o <<"\"">> \o fs.intext \o <<"\"">> >>

\* The first k of segs with sep between neighbours
RECURSIVE Separated(_, _, _)
Separated(segs, k, sep) ==
    IF k = 0 THEN <<>>
    ELSE IF k = 1 THEN segs[1]
    ELSE Separated(segs, k - 1, sep) \o sep \o segs[k]

ExpectedQuery(fs) ==
    LET kept == SelectSeq(<<1, 2, 3, 4, 5>>,
                          LAMBDA i : FieldValues(fs)[i] # <<>>)
        segs == [j \in 1..Len(kept) |-> Segments(fs)[kept[j]]]
        op == Trim(fs.operator)
        sep == IF op = <<>> THEN <<" ">> ELSE <<" ">> \o op \o <<" ">>
    IN  Separated(segs, Len(segs), sep)

ExampleOr ==
    [DefaultData EXCEPT !.site = StrExampleCom, !.filetype = StrPdf,
                        !.operator = StrOR]

ExampleOrQuery ==
    <<"s", "i", "t", "e", ":", "e", "x", "a", "m", "p", "l", "e", ".", "c",
      "o", "m", " ", "O", "R", " ", "f", "i", "l", "e", "t", "y", "p", "e",
      ":", "p", "d", "f">>

\* C5: build returns the segments of exactly the non-empty fields, in the
\* order site, inurl, intitle, filetype, intext, joined by one space when
\* the trimmed operator is empty and by the trimmed operator between two
\* spaces otherwise; the OR example gives site:example.com OR filetype:pdf.
C5_BuildSegments ==
    last = "build"
        => /\ query = ExpectedQuery(input)
           /\ input = ExampleOr => query = ExampleOrQuery

\* C5 witness: the OR example was built.
C5_Witness == last = "build" /\ input = ExampleOr /\ query = ExampleOrQuery

SingleToken(v) == \A i \in 1..Len(v) : ~IsWhitespace(v[i])

\* C9: a field set of whitespace-free values and empty operator is
\* reproduced field by field by parse after build.
C9_RoundTrip ==
    (/\ last = "parse"
     /\ input.operator = <<>>
     /\ \A i \in 1..5 : SingleToken(FieldValues(input)[i]))
        => data = input

-----------------------------------------------------------------------------
(* Properties of the catalog functions *)

\* a sorts before b in the byte-wise order of strings
LexLess(a, b) ==
    \E k \in 0..Len(a) :
        /\ k <= Len(b)
        /\ \A j \in 1..k : a[j] = b[j]
        /\ \/ k = Len(a) /\ k < Len(b)
           \/ k < Len(a) /\ k < Len(b) /\ Code(a[k + 1]) < Code(b[k + 1])

LabelsOf(dorks) == {dorks[i].category : i \in 1..Len(dorks)}

\* C12: unique_categories returns the labels in strictly ascending order,
\* hence none twice, and exactly the labels that occur in the catalog.
C12_CategoriesSortedUnique ==
    last = "unique_categories"
        => /\ \A i \in 1..(Len(output) - 1) : LexLess(output[i], output[i + 1])
           /\ {output[i] : i \in 1..Len(output)} = LabelsOf(input.dorks)

\* C12 witness: a catalog whose equal labels are not neighbours.
C12_Witness ==
    /\ last = "unique_categories"
    /\ Len(input.dorks) = 3
    /\ input.dorks[1].category = CatFiles
    /\ input.dorks[2].category = CatAdmin
    /\ input.dorks[3].category = CatFiles
    /\ output = <<CatAdmin, CatFiles>>

UpperLetters ==
    <<"A", "B", "C", "D", "E", "F", "G", "H", "I", "J", "K", "L", "M", "N",
      "O", "P", "Q", "R", "S", "T", "U", "V", "W", "X", "Y", "Z">>

LowerLetters ==
    <<"a", "b", "c", "d", "e", "f", "g", "h", "i", "j", "k", "l", "m", "n",
      "o", "p", "q", "r", "s", "t", "u", "v", "w", "x", "y", "z">>

\* Two characters are the same letter in either case, or the same character.
SameFolded(c, d) ==
    \/ c = d
    \/ \E i \in 1..26 : {c, d} = {UpperLetters[i], LowerLetters[i]}

FoldedEqual(a, b) ==
    Len(a) = Len(b) /\ \A i \in 1..Len(a) : SameFolded(a[i], b[i])

\* The templates among the first k of dorks whose category is category up
\* to case, in catalog order
RECURSIVE KeptUpTo(_, _, _)
KeptUpTo(dorks, k, category) ==
    IF k = 0 THEN <<>>
    ELSE KeptUpTo(dorks, k - 1, category)
         \o (IF FoldedEqual(dorks[k].category, category)
             THEN <<dorks[k]>> ELSE <<>>)

\* C13: filter_dorks_by_category returns exactly the templates whose
\* category equals the argument up to ASCII case, in catalog order, so an
\* argument that differs only in case gives the same result.
C13_FilterCaseInsensitive ==
    last = "filter_dorks_by_category"
        => /\ output = KeptUpTo(input.dorks, Len(input.dorks), input.category)
           /\ \A c \in CategoryArgs :
                 FoldedEqual(c, input.category)
                     => filter_dorks_by_category(input.dorks, c) = output

\* C13 witness: ADMIN picks the Admin and the admin template, in order.
C13_Witness ==
    /\ last = "filter_dorks_by_category"
    /\ input.category = StrAdminUpper
    /\ Len(input.dorks) = 3
    /\ input.dorks[1].category = CatAdmin
    /\ input.dorks[2].category = CatFiles
    /\ input.dorks[3].category = StrAdminLower
    /\ output = <<input.dorks[1], input.dorks[3]>>

-----------------------------------------------------------------------------
(* Properties of the parser *)

HasPrefix(t, p) == Len(t) >= Len(p) /\ \A i \in 1..Len(p) : t[i] = p[i]

AfterPrefix(t, p) == [i \in 1..(Len(t) - Len(p)) |-> t[i + Len(p)]]

\* What follows p in the last token that starts with p; empty without one
LastWithPrefix(tokens, p) ==
    LET at == {i \in 1..Len(tokens) : HasPrefix(tokens[i], p)}
    IN  IF at = {} THEN <<>>
        ELSE AfterPrefix(tokens[CHOOSE i \in at : \A j \in at : j <= i], p)

\* The tokens that start with none of the four prefixes, in order
FreeTokens(tokens) ==
    SelectSeq(tokens,
              LAMBDA t : \A p \in {PrefixSite, PrefixInurl, PrefixIntitle,
                                   PrefixFiletype} : ~HasPrefix(t, p))

\* The intext after `times` parses: the old intext, when not empty, and the
\* free tokens once per parse, with single spaces between
IntextAfter(old, tokens, times) ==
    LET free == FreeTokens(tokens)
        pieces == (IF old = <<>> THEN <<>> ELSE <<old>>)
                  \o free \o (IF times = 2 THEN free ELSE <<>>)
    IN  Separated(pieces, Len(pieces), <<" ">>)

ParsedAs(times) ==
    /\ data.site = LastWithPrefix(input.tokens, PrefixSite)
    /\ data.inurl = LastWithPrefix(input.tokens, PrefixInurl)
    /\ data.intitle = LastWithPrefix(input.tokens, PrefixIntitle)
    /\ data.filetype = LastWithPrefix(input.tokens, PrefixFiletype)
    /\ data.operator = input.start.operator
    /\ data.intext = IntextAfter(input.start.intext, input.tokens, times)

\* C15: parse sets site, inurl, intitle and filetype to what follows the
\* prefix in the last token that has it (empty without one), leaves the
\* operator, and appends the other tokens to the intext it finds, with
\* single spaces, in order; a second parse appends them again.
C15_ParseAccumulates ==
    /\ last = "apply_query_string" => ParsedAs(1)
    /\ last = "apply_query_string twice" => ParsedAs(2)

\* C15 witness: two parses of site:a OR site:b on top of intext a b.
C15_Witness ==
    /\ last = "apply_query_string twice"
    /\ input.tokens = <<PrefixSite \o StrA, StrOR, PrefixSite \o StrB>>
    /\ input.start.intext = StrTwoWords
    /\ data.site = StrB
    /\ data.inurl = <<>>
    /\ data.operator = StrOR
    /\ data.intext = <<"a", " ", "b", " ", "O", "R", " ", "O", "R">>

====
